---- MODULE Spec2Model ----
(***************************************************************************)
(* LifeHub agent backend: the planner -> worker -> explainer graph of      *)
(* backend/agents/graph.py and the server-sent-event adapter               *)
(* stream_response of backend/app/main.py.                                 *)
(*                                                                         *)
(* Texts are TLA+ strings (TLC evaluates Len, \o and SubSeq on them), so   *)
(* lengths and prefixes are those of the Python strings.  Decoded JSON     *)
(* values are tagged records.  The planner's raw response is a sequence    *)
(* of lines, each line a sequence of tokens: a code fence, a word, or one  *)
(* complete JSON document.                                                 *)
(***************************************************************************)
EXTENDS Integers, Sequences, FiniteSets, TLC

(***************************************************************************)
(* Bounds of the model.                                                    *)
(***************************************************************************)
MaxPlanLen == 2
MaxChunks == 2
MaxNotes == 2
MaxGraphCalls == 4
MaxInvocations == 3
MaxCallers == 4

(***************************************************************************)
(* Decoded JSON values (what json.loads returns).  JNull is Python's None. *)
(***************************************************************************)
JNull == [k |-> "null"]
JNum(n) == [k |-> "num", n |-> n]
JStr(s) == [k |-> "str", s |-> s]
JList(items) == [k |-> "list", items |-> items]
JObj(f) == [k |-> "obj", f |-> f]

EmptyObj == JObj(<<>>)

\* Python truthiness of a decoded value: None, 0, "", [] and {} are falsy.
Truthy(v) ==
    CASE v.k = "null" -> FALSE
      [] v.k = "num" -> v.n # 0
      [] v.k = "str" -> v.s # ""
      [] v.k = "list" -> Len(v.items) > 0
      [] v.k = "obj" -> DOMAIN v.f # {}

\* dict.get(key, default) on a decoded object.
Get(obj, key, default) == IF key \in DOMAIN obj.f THEN obj.f[key] ELSE default

(***************************************************************************)
(* Text helpers.                                                           *)
(***************************************************************************)
RECURSIVE Rep(_, _)
\* The text c repeated n times.
Rep(c, n) ==
    IF n = 0 THEN ""
    ELSE IF n % 2 = 0 THEN LET h == Rep(c, n \div 2) IN h \o h
    ELSE c \o Rep(c, n - 1)

\* s[:n] of Python.
Prefix(s, n) == IF Len(s) <= n THEN s ELSE SubSeq(s, 1, n)

StartsWith(s, p) == Len(s) >= Len(p) /\ SubSeq(s, 1, Len(p)) = p

(***************************************************************************)
(* The planner's raw response text: lines of tokens.                       *)
(***************************************************************************)
Fence == [t |-> "fence"]
Word(w) == [t |-> "word", w |-> w]
Doc(v) == [t |-> "doc", v |-> v]

EmptyText == << <<>> >>

RECURSIVE LStrip(_)
LStrip(lines) ==
    IF Len(lines) > 1 /\ Head(lines) = <<>> THEN LStrip(Tail(lines)) ELSE lines

RECURSIVE RStrip(_)
RStrip(lines) ==
    IF Len(lines) > 1 /\ lines[Len(lines)] = <<>>
    THEN RStrip(SubSeq(lines, 1, Len(lines) - 1))
    ELSE lines

\* str.strip(): blank lines at either end of the text are dropped.
Strip(lines) == RStrip(LStrip(lines))

\* "\n".join(lines); joining no line at all gives the empty text.
Join(lines) == IF lines = <<>> THEN EmptyText ELSE lines

\* content.startswith("```")
StartsWithFence(lines) == lines[1] # <<>> /\ lines[1][1] = Fence

\* The fence removal of planner_node: the first line goes, and the last line
\* goes as well only when it is exactly a fence.
StripFence(content) ==
    IF StartsWithFence(content)
    THEN Join(IF content[Len(content)] = <<Fence>>
              THEN SubSeq(content, 2, Len(content) - 1)
              ELSE SubSeq(content, 2, Len(content)))
    ELSE content

RECURSIVE Flatten(_)
Flatten(lines) == IF lines = <<>> THEN <<>> ELSE Head(lines) \o Flatten(Tail(lines))

JSONDecodeError == [err |-> "JSONDecodeError"]

\* json.loads: the text decodes when it is one JSON document, white space
\* (line breaks included) around it allowed; anything else is a decode error.
JsonLoads(content) ==
    LET toks == Flatten(content)
    IN IF Len(toks) = 1 /\ toks[1].t = "doc" THEN toks[1].v ELSE JSONDecodeError

(***************************************************************************)
(* Plan parsing of planner_node.                                           *)
(***************************************************************************)
FallbackPlan ==
    << [step |-> JNum(1), description |-> JStr("Respond directly to user"),
        tool |-> JNull, tool_input |-> JNull] >>

\* Mutant: every step is numbered by its position, the entry's own step number
\* is overwritten.
NormalizeStepRenumbered(entry, i) ==
    [step |-> JNum(i),
     description |-> Get(entry, "description", JStr("")),
     tool |-> Get(entry, "tool", JNull),
     tool_input |-> Get(entry, "tool_input", JNull)]

\* One normalized step; i is the entry's 1-based position (enumerate's i + 1).
NormalizeStep(entry, i) ==
    [step |-> Get(entry, "step", JNum(i)),
     description |-> Get(entry, "description", JStr("")),
     tool |-> Get(entry, "tool", JNull),
     tool_input |-> Get(entry, "tool_input", JNull)]

Raised(exc) == [kind |-> "raise", exc |-> exc]
Parsed(plan) == [kind |-> "plan", plan |-> plan]

\* The normalization loop over the value of "plan".
NormalizePlan(plan) ==
    CASE plan.k \in {"null", "num"} -> Raised("TypeError")
      [] plan.k = "str" ->
            IF plan.s = "" THEN Parsed(<<>>) ELSE Raised("AttributeError")
      [] plan.k = "obj" ->
            IF DOMAIN plan.f = {} THEN Parsed(<<>>) ELSE Raised("AttributeError")
      [] plan.k = "list" ->
            IF \E i \in 1..Len(plan.items) : plan.items[i].k # "obj"
            THEN Raised("AttributeError")
            ELSE Parsed([i \in 1..Len(plan.items) |->
                            NormalizeStep(plan.items[i], i)])

\* The try block of planner_node on the response text: only a decode error is
\* caught and answered with the fallback plan; any other exception leaves the
\* node.
ParsePlan(raw) ==
    LET plan_data == JsonLoads(StripFence(Strip(raw)))
    IN IF plan_data = JSONDecodeError THEN Parsed(FallbackPlan)
       ELSE IF plan_data.k # "obj" THEN Raised("AttributeError")
       ELSE NormalizePlan(Get(plan_data, "plan", JList(<<>>)))

(***************************************************************************)
(* json.dumps and str() on decoded values.                                 *)
(***************************************************************************)
Quote(s) == "\"" \o s \o "\""

RECURSIVE Dumps(_)
RECURSIVE DumpsItems(_)
RECURSIVE DumpsMembers(_, _)

\* json.dumps(v) with the default separators.
Dumps(v) ==
    CASE v.k = "null" -> "null"
      [] v.k = "num" -> ToString(v.n)
      [] v.k = "str" -> Quote(v.s)
      [] v.k = "list" -> "[" \o DumpsItems(v.items) \o "]"
      [] v.k = "obj" -> "{" \o DumpsMembers(v.f, DOMAIN v.f) \o "}"

DumpsItems(items) ==
    IF items = <<>> THEN ""
    ELSE IF Len(items) = 1 THEN Dumps(items[1])
    ELSE Dumps(items[1]) \o ", " \o DumpsItems(Tail(items))

\* The members of an object, key by key. The keys are taken in the order of
\* CHOOSE, which for the objects of this model is the order they were written
\* in ({"query": ..., "top_k": ...}).
DumpsMembers(f, keys) ==
    IF keys = {} THEN ""
    ELSE LET key == CHOOSE x \in keys : TRUE
             rest == keys \ {key}
         IN Quote(key) \o ": " \o Dumps(f[key])
            \o (IF rest = {} THEN "" ELSE ", " \o DumpsMembers(f, rest))

\* The "convert result to string" branch of worker_node: json.dumps for a
\* dict or a list, str() for anything else.
ResultStr(result) ==
    CASE result.k \in {"obj", "list"} -> Dumps(result)
      [] result.k = "str" -> result.s
      [] result.k = "num" -> ToString(result.n)
      [] result.k = "null" -> "None"

(***************************************************************************)
(* worker_node, one plan step at a time.                                   *)
(***************************************************************************)
\* TOOL_MAP's keys.
TOOL_MAP == {"get_weather", "add_task", "search_notes"}

\* "Truncate long results": the length kept of a tool's result.
MaxResultLen == 1000

\* step.get("tool_input") or {}
ToolInput(step) == IF Truthy(step.tool_input) THEN step.tool_input ELSE EmptyObj

\* "tool_name in TOOL_MAP" raises TypeError for a list or a dict (unhashable);
\* the test is only reached for a truthy tool_name.
ToolTestRaises(step) == Truthy(step.tool) /\ step.tool.k \in {"list", "obj"}

\* Mutant: every named tool is invoked, known to TOOL_MAP or not.
IsToolStepAnyName(step) == Truthy(step.tool) /\ step.tool.k = "str"

\* if tool_name and tool_name in TOOL_MAP
IsToolStep(step) ==
    /\ Truthy(step.tool)
    /\ step.tool.k = "str"
    /\ step.tool.s \in TOOL_MAP

\* f"{tool_name}({json.dumps(tool_input)})"
ToolAction(step) == step.tool.s \o "(" \o Dumps(ToolInput(step)) \o ")"

\* Mutant: the result is stored without the truncation.
SuccessEntryUntruncated(step, result) ==
    [step |-> step.step,
     action |-> ToolAction(step),
     result |-> ResultStr(result)]

\* The log entry of a step whose tool returned result.
SuccessEntry(step, result) ==
    [step |-> step.step,
     action |-> ToolAction(step),
     result |-> Prefix(ResultStr(result), MaxResultLen)]

\* Mutant: the message is stored without the "Error: " prefix.
ErrorEntryNoPrefix(step, msg) ==
    [step |-> step.step,
     action |-> ToolAction(step),
     result |-> msg]

\* The log entry of a step whose tool raised an exception with message msg.
ErrorEntry(step, msg) ==
    [step |-> step.step,
     action |-> ToolAction(step),
     result |-> "Error: " \o msg]

\* The log entry of a step with no tool, or with a tool TOOL_MAP does not hold.
ReasoningEntry(step) ==
    [step |-> step.step,
     action |-> step.description.s,
     result |-> "Reasoning/synthesis step completed"]

(***************************************************************************)
(* The event adapter: the body of stream_response's loop for one event of  *)
(* astream_events.                                                         *)
(***************************************************************************)
StartEvent == [type |-> "start"]
EndEvent == [type |-> "end"]
ErrorEvent(msg) == [type |-> "error", message |-> msg]
PlanEvent(steps) == [type |-> "plan", plan |-> steps]
ContextLogEvent(log) == [type |-> "context_log", log |-> log]
TokenEvent(content) == [type |-> "token", content |-> content]
ToolStartEvent(name, input) == [type |-> "tool_start", name |-> name, input |-> input]
ToolEndEvent(name, output) == [type |-> "tool_end", name |-> name, output |-> output]

\* Events of the graph, as astream_events (version v2) delivers them.
ChainEnd(name, output) == [event |-> "on_chain_end", name |-> name, output |-> output]
ChatModelStream(content) == [event |-> "on_chat_model_stream", content |-> content]
ToolStarted(name, input) == [event |-> "on_tool_start", name |-> name, input |-> input]
ToolEnded(name, output) == [event |-> "on_tool_end", name |-> name, output |-> output]

\* "Debug: send plan after planner completes"
SendsPlan(event, dbg, sent) ==
    /\ dbg
    /\ event.event = "on_chain_end"
    /\ ~sent
    /\ "plan" \in DOMAIN event.output
    /\ Truthy(event.output.plan)

\* Mutant: the context log is sent whatever the debug flag says.
SendsContextLogAlways(event, dbg, sent) ==
    /\ event.event = "on_chain_end"
    /\ ~sent
    /\ "context_log" \in DOMAIN event.output
    /\ event.output.context_log # <<>>

\* "Debug: send context log updates"
SendsContextLog(event, dbg, sent) ==
    /\ dbg
    /\ event.event = "on_chain_end"
    /\ ~sent
    /\ "context_log" \in DOMAIN event.output
    /\ event.output.context_log # <<>>

\* The if / elif / elif chain on the event kind.
KindEvents(event) ==
    CASE event.event = "on_chat_model_stream" ->
            IF event.content # "" THEN <<TokenEvent(event.content)>> ELSE <<>>
      [] event.event = "on_tool_start" ->
            <<ToolStartEvent(event.name, event.input)>>
      [] event.event = "on_tool_end" ->
            <<ToolEndEvent(event.name, event.output)>>
      [] OTHER -> <<>>

\* The wire events one graph event yields, in the order of the yields.
Yields(event, dbg, psent, csent) ==
    (IF SendsPlan(event, dbg, psent)
     THEN <<PlanEvent(event.output.plan.items)>> ELSE <<>>)
    \o (IF SendsContextLog(event, dbg, csent)
        THEN <<ContextLogEvent(event.output.context_log)>> ELSE <<>>)
    \o KindEvents(event)

(***************************************************************************)
(* The inputs the model draws from.                                        *)
(***************************************************************************)
\* Entries of a planner document's "plan" list.
WeatherEntry ==
    JObj([step |-> JNum(2), description |-> JStr("Get weather"),
          tool |-> JStr("get_weather"),
          tool_input |-> JObj([city |-> JStr("Paris")])])
ReasonEntry ==
    JObj([step |-> JNum(1), description |-> JStr("Summarize"),
          tool |-> JNull, tool_input |-> JNull])
UnknownEntry ==
    JObj([step |-> JNum(3), description |-> JStr("Call it"),
          tool |-> JStr("nonexistent_tool"), tool_input |-> EmptyObj])
SearchEntry ==
    JObj([description |-> JStr("Search notes"), tool |-> JStr("search_notes")])
ListToolEntry ==
    JObj([step |-> JNum(1), description |-> JStr("Pick one"),
          tool |-> JList(<<JStr("get_weather")>>)])
NonObjectEntry == JNum(7)

Entries ==
    {WeatherEntry, ReasonEntry, UnknownEntry, SearchEntry, ListToolEntry,
     NonObjectEntry}

SeqsUpTo(S, n) == UNION {[1..m -> S] : m \in 0..n}

PlanDoc(entries) == JObj([plan |-> JList(entries)])

\* Documents with a list of entries under "plan".
PlanDocs == {PlanDoc(es) : es \in SeqsUpTo(Entries, MaxPlanLen)}

\* Documents that decode but are not of the expected structure.
OddDocs ==
    {JList(<<>>), JNum(42), JNull,
     JObj([answer |-> JStr("hi")]),
     JObj([plan |-> JNum(5)]), JObj([plan |-> JNull]),
     JObj([plan |-> JStr("")]), JObj([plan |-> JStr("ab")]),
     JObj([plan |-> EmptyObj]), JObj([plan |-> JObj([a |-> JNum(1)])])}

\* The ways a document is laid out in the response text.
Bare(d) == << <<Doc(d)>> >>
Padded(d) == << <<>>, <<Doc(d)>>, <<>> >>
Fenced(d) == << <<Fence, Word("json")>>, <<Doc(d)>>, <<Fence>> >>
FencedSameLine(d) == << <<Fence, Word("json")>>, <<Doc(d), Fence>> >>
FencedOpen(d) == << <<Fence>>, <<Doc(d)>> >>

FencedDocs == {PlanDoc(<<WeatherEntry>>), JList(<<>>)}

\* Documents with an entry that has no key at all.
SparseDocs == {PlanDoc(<<EmptyObj>>), PlanDoc(<<WeatherEntry, EmptyObj>>)}

\* A step of a registered tool, one of whose arguments is null.
NullArgEntry ==
    JObj([step |-> JNum(1), description |-> JStr("Search notes"),
          tool |-> JStr("search_notes"),
          tool_input |-> JObj([query |-> JStr("milk"), top_k |-> JNull])])
NullArgDocs == {PlanDoc(<<NullArgEntry>>)}

NotJson == << <<Word("not"), Word("json")>> >>

PlannerTexts ==
    {Bare(d) : d \in PlanDocs \cup OddDocs \cup SparseDocs \cup NullArgDocs}
    \cup {Padded(d) : d \in FencedDocs}
    \cup {Fenced(d) : d \in FencedDocs}
    \cup {FencedSameLine(d) : d \in FencedDocs}
    \cup {FencedOpen(d) : d \in FencedDocs}
    \cup {NotJson, EmptyText, << <<Fence>> >>}

\* What a tool returns: a short dict, a text of exactly MaxResultLen
\* characters, a dict whose serialization is longer than MaxResultLen.
ToolResults ==
    { JObj([temp |-> JStr("70F")]),
      JStr(Rep("a", MaxResultLen - 2) \o "bc"),
      JObj([content |-> JStr(Rep("a", MaxResultLen) \o "bc")]) }

\* Messages of the exceptions a tool raises: a short one, and one that with
\* the "Error: " prefix is longer than MaxResultLen.
ToolErrors == {"boom", Rep("e", MaxResultLen)}

\* Failures of the collaborators.
GraphErrors == {"The api_key client option must be set"}
PlannerErrors == {"planner request timed out"}
ExplainerErrors == {"explainer connection error"}

\* Requests: the conversation, the provider and the debug flag.
Conversations ==
    { << [role |-> "user", content |-> "What's the weather in Paris?"] >>,
      << [role |-> "system", content |-> "Be brief"],
         [role |-> "user", content |-> "Add a task"],
         [role |-> "assistant", content |-> "Which task?"] >> }
Requests == [messages : Conversations, provider : {"openai"}, debug : BOOLEAN]

(***************************************************************************)
(* The state.                                                              *)
(***************************************************************************)
VARIABLES
    request,          \* the chat request being served
    graphs,           \* _multi_agent_graphs: the providers with a cached graph
    pc,               \* stream_response: "get_graph", "stream" or "closed"
    wire,             \* the events stream_response has yielded, in order
    plan_sent,        \* stream_response's flag
    context_log_sent, \* stream_response's flag
    node,             \* the node of the graph that runs
    messages,         \* MultiAgentState
    plan,             \* MultiAgentState: JNull or JList(steps)
    current_step,     \* MultiAgentState
    context_log,      \* MultiAgentState
    final_answer,     \* MultiAgentState: JNull or JStr(text)
    wpc,              \* worker_node: "idle", "loop" or "tool" (a tool runs)
    local_log,        \* worker_node's local context_log
    step_idx,         \* worker_node: the plan steps done with
    epc,              \* explainer_node: "idle" or "call" (the model call runs)
    chunks,           \* the chunks the explainer model has streamed
    response,         \* chat_sync: the response returned, or JNull
    notes,            \* search_notes: the call in progress, or NotesIdle
    client,           \* the caller's connection, and what had run when it went
    cache,            \* get_multi_agent_graph: the graphs held, built and returned
    store,            \* add_task: the tasks file and the invocations in progress
    manager,          \* get_mcp_tools: _mcp_manager and the calls in progress
    llm_calls,        \* history: the model calls made, in order
    prompts,          \* history: the request text each model call was given
    planner_raw,      \* history: the planner's response text, or JNull
    calls,            \* history: the tool invocations, in order
    entered,          \* history: the nodes entered, in order
    error             \* history: the exception that ended the run, or JNull

vars ==
    <<request, graphs, pc, wire, plan_sent, context_log_sent, node, messages,
      plan, current_step, context_log, final_answer, wpc, local_log, step_idx,
      epc, chunks, response, notes, client, cache, store, manager, llm_calls,
      prompts, planner_raw, calls, entered, error>>

graphVars == <<messages, plan, current_step, context_log, final_answer>>
workerVars == <<wpc, local_log, step_idx>>
sharedVars == <<cache, store, manager>>

\* convert_messages: user and assistant messages are kept, others skipped.
ConvertMessages(msgs) ==
    LET F[i \in 0..Len(msgs)] ==
            IF i = 0 THEN <<>>
            ELSE IF msgs[i].role = "user"
                 THEN Append(F[i - 1], [type |-> "human", content |-> msgs[i].content])
            ELSE IF msgs[i].role = "assistant"
                 THEN Append(F[i - 1], [type |-> "ai", content |-> msgs[i].content])
            ELSE F[i - 1]
    IN F[Len(msgs)]

\* Mutant: the worker hands back to the planner.
NextNodeReplan(n) ==
    CASE n = "__start__" -> "planner"
      [] n = "planner" -> "worker"
      [] n = "worker" -> "planner"
      [] n = "explainer" -> "__end__"

\* The edges of the graph: START -> planner -> worker -> explainer -> END.
NextNode(n) ==
    CASE n = "__start__" -> "planner"
      [] n = "planner" -> "worker"
      [] n = "worker" -> "explainer"
      [] n = "explainer" -> "__end__"

\* No call of search_notes is in progress.
NotesIdle ==
    [pc |-> "idle", top_k |-> 0, count |-> 0, hits |-> <<>>, failed |-> "",
     out |-> <<>>]

\* The caller is connected.
Connected == [connected |-> TRUE, tools |-> 0, models |-> 0]

\* _multi_agent_graphs = {}: no graph is held, none was built, no call made.
CacheEmpty == [graphs |-> {}, built |-> <<>>, returned |-> <<>>]

\* No tasks file and no add_task invocation.
StoreIdle == [file |-> <<>>, invocations |-> <<>>]

\* _mcp_manager = None, and no caller of get_mcp_tools.
ManagerNone ==
    [created |-> FALSE, initialized |-> FALSE, servers |-> <<>>, at |-> "",
     tools |-> <<>>, callers |-> <<>>]

\* Nothing has run yet.
GraphIdle ==
    /\ client = Connected
    /\ cache = CacheEmpty
    /\ store = StoreIdle
    /\ manager = ManagerNone
    /\ prompts = <<>>
    /\ graphs = {}
    /\ wire = <<>>
    /\ plan_sent = FALSE
    /\ context_log_sent = FALSE
    /\ node = "__start__"
    /\ messages = <<>>
    /\ plan = JNull
    /\ current_step = 0
    /\ context_log = <<>>
    /\ final_answer = JNull
    /\ wpc = "idle"
    /\ local_log = <<>>
    /\ step_idx = 0
    /\ epc = "idle"
    /\ chunks = <<>>
    /\ response = JNull
    /\ llm_calls = <<>>
    /\ planner_raw = JNull
    /\ calls = <<>>
    /\ entered = <<>>
    /\ error = JNull

\* A request has arrived.
RunStart ==
    /\ request \in Requests
    /\ notes = NotesIdle
    /\ GraphIdle

\* The request is for the streaming endpoint.
Init == RunStart /\ pc = "get_graph"

\* The request is for the synchronous endpoint.
InitSync == RunStart /\ pc = "sync"

\* The graph runs, under astream_events or under ainvoke.
Running == pc \in {"stream", "invoke"}

(***************************************************************************)
(* stream_response.                                                        *)
(***************************************************************************)
\* Mutant: plan_sent is never set, so every later on_chain_end that carries a
\* plan sends it again.
RelayForgetsPlanSent(event, tail) ==
    /\ wire' = wire \o Yields(event, request.debug, plan_sent, context_log_sent)
                    \o tail
    /\ plan_sent' = plan_sent
    /\ context_log_sent' = context_log_sent

\* One pass of the loop body on a graph event, followed by the yields of tail.
\* Under ainvoke nobody listens to the graph's events.
Relay(event, tail) ==
    /\ wire' = IF pc = "stream"
               THEN wire \o Yields(event, request.debug, plan_sent, context_log_sent)
                         \o tail
               ELSE wire
    /\ plan_sent' =
          (plan_sent \/ (pc = "stream" /\ SendsPlan(event, request.debug, plan_sent)))
    /\ context_log_sent' = context_log_sent

\* Mutant: the return after the error event is missing, and the end event
\* after the loop is yielded too.
AbortThenEnd(msg) ==
    /\ wire' = wire \o <<ErrorEvent(msg), EndEvent>>
    /\ pc' = "closed"
    /\ error' = JStr(msg)
    /\ UNCHANGED <<plan_sent, context_log_sent>>

\* Mutant: the error event carries a fixed text, not the exception's message.
AbortFixedMessage(msg) ==
    /\ wire' = Append(wire, ErrorEvent("Internal server error"))
    /\ pc' = "closed"
    /\ error' = JStr(msg)
    /\ UNCHANGED <<plan_sent, context_log_sent>>

\* "except Exception as e" around the loop: one error event, then return.
\* chat_sync has no handler: the exception leaves ainvoke and the endpoint.
Abort(msg) ==
    /\ wire' = IF pc = "stream" THEN Append(wire, ErrorEvent(msg)) ELSE wire
    /\ pc' = "closed"
    /\ error' = JStr(msg)
    /\ UNCHANGED <<plan_sent, context_log_sent>>

\* get_multi_agent_graph raises (create_multi_agent_graph cannot build a model
\* client): an error event, and the generator returns.
GetGraphFails ==
    /\ pc = "get_graph"
    /\ request.provider \notin graphs
    /\ \E msg \in GraphErrors :
          /\ wire' = Append(wire, ErrorEvent(msg))
          /\ error' = JStr(msg)
    /\ pc' = "closed"
    /\ UNCHANGED <<request, sharedVars, notes, client, prompts, response, epc,
                   llm_calls, graphs, plan_sent, context_log_sent, node, graphVars,
                   workerVars, chunks, planner_raw, calls, entered>>

\* get_multi_agent_graph returns the provider's graph, creating and caching it
\* when the cache does not hold it; the start event is yielded and the graph
\* starts on the initial state.
GetGraphOk ==
    /\ pc = "get_graph"
    /\ graphs' = graphs \cup {request.provider}
    /\ wire' = Append(wire, StartEvent)
    /\ plan_sent' = FALSE
    /\ context_log_sent' = FALSE
    /\ pc' = "stream"
    /\ messages' = ConvertMessages(request.messages)
    /\ plan' = JNull
    /\ current_step' = 0
    /\ context_log' = <<>>
    /\ final_answer' = JNull
    /\ node' = NextNode(node)
    /\ entered' = Append(entered, node')
    /\ UNCHANGED <<request, sharedVars, notes, client, prompts, response, epc,
                   llm_calls, workerVars, chunks, planner_raw, calls, error>>

(***************************************************************************)
(* planner_node.                                                           *)
(***************************************************************************)
\* messages[-1].content if messages else default: the text a prompt quotes as
\* the user's request.
RequestText(msgs, default) ==
    IF msgs # <<>> THEN msgs[Len(msgs)].content ELSE default

\* str(e) of the exceptions the plan parsing lets through.
ExcMessage(exc) ==
    CASE exc = "AttributeError" -> "object has no attribute 'get'"
      [] exc = "TypeError" -> "object is not iterable"

\* Mutant: the node leaves the step counter at one.
PlannerUpdateStepOne(p) ==
    [plan |-> JList(p), current_step |-> 1, context_log |-> <<>>]

\* The update planner_node returns, on the parsed and on the fallback path.
PlannerUpdate(p) ==
    [plan |-> JList(p), current_step |-> 0, context_log |-> <<>>]

\* planner_model.invoke raises.
PlannerFails ==
    /\ Running
    /\ node = "planner"
    /\ \E msg \in PlannerErrors : Abort(msg)
    /\ llm_calls' = Append(llm_calls, "planner")
    /\ prompts' = Append(prompts, RequestText(messages, "No message"))
    /\ UNCHANGED <<request, sharedVars, notes, client, response, epc, graphs, node,
                   graphVars, workerVars, chunks, planner_raw, calls, entered>>

\* planner_model.invoke returns raw; the plan is parsed from it.
PlannerReturns ==
    /\ Running
    /\ node = "planner"
    /\ \E raw \in PlannerTexts :
          LET r == ParsePlan(raw)
          IN /\ planner_raw' = [k |-> "text", lines |-> raw]
             /\ IF r.kind = "raise"
                THEN /\ Abort(ExcMessage(r.exc))
                     /\ UNCHANGED <<node, entered, plan, current_step, context_log>>
                ELSE /\ plan' = PlannerUpdate(r.plan).plan
                     /\ current_step' = PlannerUpdate(r.plan).current_step
                     /\ context_log' = PlannerUpdate(r.plan).context_log
                     /\ Relay(ChainEnd("planner", PlannerUpdate(r.plan)), <<>>)
                     /\ node' = NextNode(node)
                     /\ entered' = Append(entered, node')
                     /\ UNCHANGED <<pc, error>>
    /\ llm_calls' = Append(llm_calls, "planner")
    /\ prompts' = Append(prompts, RequestText(messages, "No message"))
    /\ UNCHANGED <<request, sharedVars, notes, client, response, epc, graphs,
                   messages, final_answer, workerVars, chunks, calls>>

(***************************************************************************)
(* worker_node.                                                            *)
(***************************************************************************)
Pending == [k |-> "pending"]
RaisedMsg(msg) == [k |-> "raised", msg |-> msg]

\* Mutant: the loop walks the plan back to front.
CurrentStepReversed == plan.items[Len(plan.items) - step_idx]

\* The plan step the loop is at.
CurrentStep == plan.items[step_idx + 1]

\* Mutant: the node starts from an empty log, the given log is dropped.
WorkerBeginFreshLog ==
    /\ Running
    /\ node = "worker"
    /\ wpc = "idle"
    /\ local_log' = <<>>
    /\ step_idx' = 0
    /\ wpc' = "loop"
    /\ UNCHANGED <<request, sharedVars, notes, client, prompts, response, epc,
                   llm_calls, graphs, pc, wire, plan_sent, context_log_sent, node,
                   graphVars, chunks, planner_raw, calls, entered, error>>

\* The node starts: context_log = list(state.get("context_log", [])).
WorkerBegin ==
    /\ Running
    /\ node = "worker"
    /\ wpc = "idle"
    /\ local_log' = context_log
    /\ step_idx' = 0
    /\ wpc' = "loop"
    /\ UNCHANGED <<request, sharedVars, notes, client, prompts, response, epc,
                   llm_calls, graphs, pc, wire, plan_sent, context_log_sent, node,
                   graphVars, chunks, planner_raw, calls, entered, error>>

\* A step with no tool, or with a tool TOOL_MAP does not hold.
WorkerReasoning ==
    /\ Running
    /\ node = "worker"
    /\ wpc = "loop"
    /\ step_idx < Len(plan.items)
    /\ ~ToolTestRaises(CurrentStep)
    /\ ~IsToolStep(CurrentStep)
    /\ local_log' = Append(local_log, ReasoningEntry(CurrentStep))
    /\ step_idx' = step_idx + 1
    /\ UNCHANGED <<request, sharedVars, notes, client, prompts, response, epc,
                   llm_calls, graphs, pc, wire, plan_sent, context_log_sent, node,
                   graphVars, wpc, chunks, planner_raw, calls, entered, error>>

\* The test "tool_name in TOOL_MAP" raises, outside the try: the node fails.
WorkerTestRaises ==
    /\ Running
    /\ node = "worker"
    /\ wpc = "loop"
    /\ step_idx < Len(plan.items)
    /\ ToolTestRaises(CurrentStep)
    /\ Abort("unhashable type")
    /\ UNCHANGED <<request, sharedVars, notes, client, prompts, response, epc,
                   llm_calls, graphs, node, graphVars, workerVars, chunks,
                   planner_raw, calls, entered>>

\* Mutant: the tool is started and not awaited; the loop goes on to the next
\* step while the invocation is in progress.
ToolStartNotAwaited ==
    /\ Running
    /\ node = "worker"
    /\ wpc = "loop"
    /\ step_idx < Len(plan.items)
    /\ ~ToolTestRaises(CurrentStep)
    /\ IsToolStep(CurrentStep)
    /\ calls' = Append(calls, [idx |-> step_idx + 1, name |-> CurrentStep.tool.s,
                               input |-> ToolInput(CurrentStep), out |-> Pending])
    /\ Relay(ToolStarted(CurrentStep.tool.s, ToolInput(CurrentStep)), <<>>)
    /\ step_idx' = step_idx + 1
    /\ UNCHANGED <<request, sharedVars, notes, client, prompts, response, epc,
                   llm_calls, graphs, pc, node, graphVars, wpc, local_log, chunks,
                   planner_raw, entered, error>>

\* tool.invoke(tool_input) is entered: on_tool_start.
ToolStart ==
    /\ Running
    /\ node = "worker"
    /\ wpc = "loop"
    /\ step_idx < Len(plan.items)
    /\ ~ToolTestRaises(CurrentStep)
    /\ IsToolStep(CurrentStep)
    /\ wpc' = "tool"
    /\ calls' = Append(calls, [idx |-> step_idx + 1, name |-> CurrentStep.tool.s,
                               input |-> ToolInput(CurrentStep), out |-> Pending])
    /\ Relay(ToolStarted(CurrentStep.tool.s, ToolInput(CurrentStep)), <<>>)
    /\ UNCHANGED <<request, sharedVars, notes, client, prompts, response, epc,
                   llm_calls, graphs, pc, node, graphVars, local_log, step_idx,
                   chunks, planner_raw, entered, error>>

\* The tool returns: on_tool_end, and the step's entry is appended.
ToolReturns ==
    /\ Running
    /\ node = "worker"
    /\ wpc = "tool"
    /\ \E result \in ToolResults :
          /\ local_log' = Append(local_log, SuccessEntry(CurrentStep, result))
          /\ calls' = [calls EXCEPT ![Len(calls)].out = [k |-> "returned", v |-> result]]
          /\ Relay(ToolEnded(CurrentStep.tool.s, result), <<>>)
    /\ wpc' = "loop"
    /\ step_idx' = step_idx + 1
    /\ UNCHANGED <<request, sharedVars, notes, client, prompts, response, epc,
                   llm_calls, graphs, pc, node, graphVars, chunks, planner_raw,
                   entered, error>>

\* Mutant: a tool that raised is invoked again, the step is not given up.
ToolRaisesRetry ==
    /\ Running
    /\ node = "worker"
    /\ wpc = "tool"
    /\ \E msg \in ToolErrors :
          calls' = [calls EXCEPT ![Len(calls)].out = RaisedMsg(msg)]
    /\ wpc' = "loop"
    /\ UNCHANGED <<request, sharedVars, notes, client, prompts, response, epc,
                   llm_calls, graphs, pc, wire, plan_sent, context_log_sent, node,
                   graphVars, local_log, step_idx, chunks, planner_raw, entered,
                   error>>

\* The tool raises: "except Exception as e" appends the step's error entry.
ToolRaises ==
    /\ Running
    /\ node = "worker"
    /\ wpc = "tool"
    /\ \E msg \in ToolErrors :
          /\ local_log' = Append(local_log, ErrorEntry(CurrentStep, msg))
          /\ calls' = [calls EXCEPT ![Len(calls)].out = RaisedMsg(msg)]
    /\ wpc' = "loop"
    /\ step_idx' = step_idx + 1
    /\ UNCHANGED <<request, sharedVars, notes, client, prompts, response, epc,
                   llm_calls, graphs, pc, wire, plan_sent, context_log_sent, node,
                   graphVars, chunks, planner_raw, entered, error>>

\* Mutant: the node also moves current_step to the end of the plan.
WorkerReturnsAdvancesStep ==
    /\ Running
    /\ node = "worker"
    /\ wpc = "loop"
    /\ step_idx = Len(plan.items)
    /\ context_log' = local_log
    /\ current_step' = Len(plan.items)
    /\ Relay(ChainEnd("worker", [context_log |-> local_log]), <<>>)
    /\ wpc' = "idle"
    /\ node' = NextNode(node)
    /\ entered' = Append(entered, node')
    /\ UNCHANGED <<request, sharedVars, notes, client, prompts, response, epc,
                   llm_calls, graphs, pc, messages, plan, final_answer, local_log,
                   step_idx, chunks, planner_raw, calls, error>>

\* The loop is over: the node returns {"context_log": context_log}.
WorkerReturns ==
    /\ Running
    /\ node = "worker"
    /\ wpc = "loop"
    /\ step_idx = Len(plan.items)
    /\ context_log' = local_log
    /\ Relay(ChainEnd("worker", [context_log |-> local_log]), <<>>)
    /\ wpc' = "idle"
    /\ node' = NextNode(node)
    /\ entered' = Append(entered, node')
    /\ UNCHANGED <<request, sharedVars, notes, client, prompts, response, epc,
                   llm_calls, graphs, pc, messages, plan, current_step, final_answer,
                   local_log, step_idx, chunks, planner_raw, calls, error>>

(***************************************************************************)
(* explainer_node.                                                         *)
(***************************************************************************)
RECURSIVE Concat(_)
\* The content of the response: the chunks' contents, in order.
Concat(cs) == IF cs = <<>> THEN "" ELSE Head(cs) \o Concat(Tail(cs))

\* Mutant: the messages key is overwritten like the other keys of the state.
AddMessagesOverwrites(left, right) == right

\* The reducer of the messages key: an update is appended to the messages.
AddMessages(left, right) == left \o right

\* The node starts: the prompt is built and explainer_model.invoke is entered.
ExplainerBegin ==
    /\ Running
    /\ node = "explainer"
    /\ epc = "idle"
    /\ epc' = "call"
    /\ llm_calls' = Append(llm_calls, "explainer")
    /\ prompts' = Append(prompts, RequestText(messages, "No request"))
    /\ UNCHANGED <<request, sharedVars, notes, client, response, graphs, pc, wire,
                   plan_sent, context_log_sent, node, graphVars, workerVars, chunks,
                   planner_raw, calls, entered, error>>

\* explainer_model streams one more chunk: on_chat_model_stream.
ExplainerChunk ==
    /\ Running
    /\ node = "explainer"
    /\ epc = "call"
    /\ Len(chunks) < MaxChunks
    /\ \E c \in {"", "Hel", "lo"} :
          /\ chunks' = Append(chunks, c)
          /\ Relay(ChatModelStream(c), <<>>)
    /\ UNCHANGED <<request, sharedVars, notes, client, prompts, response, epc,
                   llm_calls, graphs, pc, node, graphVars, workerVars, planner_raw,
                   calls, entered, error>>

\* explainer_model.invoke raises.
ExplainerFails ==
    /\ Running
    /\ node = "explainer"
    /\ epc = "call"
    /\ \E msg \in ExplainerErrors : Abort(msg)
    /\ UNCHANGED <<request, sharedVars, notes, client, prompts, response, epc,
                   llm_calls, graphs, node, graphVars, workerVars, chunks,
                   planner_raw, calls, entered>>

\* explainer_model.invoke returns: final_answer is set, the reply is appended
\* to the messages (add_messages).
ExplainerReturns ==
    /\ Running
    /\ node = "explainer"
    /\ epc = "call"
    /\ epc' = "idle"
    /\ LET content == Concat(chunks)
           reply == [type |-> "ai", content |-> content]
       IN /\ final_answer' = JStr(content)
          /\ messages' = AddMessages(messages, <<reply>>)
          /\ Relay(ChainEnd("explainer",
                            [final_answer |-> JStr(content), messages |-> <<reply>>]),
                   <<>>)
    /\ node' = NextNode(node)
    /\ entered' = Append(entered, node')
    /\ UNCHANGED <<request, sharedVars, notes, client, prompts, response, llm_calls,
                   graphs, pc, plan, current_step, context_log, workerVars, chunks,
                   planner_raw, calls, error>>

\* The graph is at END: its own on_chain_end carries the final state, the loop
\* is over and the end event is yielded.
GraphEnds ==
    /\ pc = "stream"
    /\ node = "__end__"
    /\ Relay(ChainEnd("LangGraph",
                      [messages |-> messages, plan |-> plan,
                       current_step |-> current_step, context_log |-> context_log,
                       final_answer |-> final_answer]),
             <<EndEvent>>)
    /\ pc' = "closed"
    /\ UNCHANGED <<request, sharedVars, notes, client, prompts, response, epc,
                   llm_calls, graphs, node, graphVars, workerVars, chunks,
                   planner_raw, calls, entered, error>>

Next ==
    \/ GetGraphFails
    \/ GetGraphOk
    \/ PlannerFails
    \/ PlannerReturns
    \/ WorkerBegin
    \/ WorkerReasoning
    \/ WorkerTestRaises
    \/ ToolStart
    \/ ToolReturns
    \/ ToolRaises
    \/ WorkerReturns
    \/ ExplainerBegin
    \/ ExplainerChunk
    \/ ExplainerFails
    \/ ExplainerReturns
    \/ GraphEnds

Spec == Init /\ [][Next]_vars

(***************************************************************************)
(* chat_sync.                                                              *)
(***************************************************************************)
\* get_multi_agent_graph raises: the exception leaves the endpoint.
SyncGetGraphFails ==
    /\ pc = "sync"
    /\ request.provider \notin graphs
    /\ \E msg \in GraphErrors : error' = JStr(msg)
    /\ pc' = "closed"
    /\ UNCHANGED <<request, sharedVars, notes, client, prompts, response, epc,
                   llm_calls, graphs, wire, plan_sent, context_log_sent, node,
                   graphVars, workerVars, chunks, planner_raw, calls, entered>>

\* The messages are converted, the graph is fetched and ainvoke starts it on
\* the initial state.
SyncGetGraphOk ==
    /\ pc = "sync"
    /\ graphs' = graphs \cup {request.provider}
    /\ pc' = "invoke"
    /\ messages' = ConvertMessages(request.messages)
    /\ plan' = JNull
    /\ current_step' = 0
    /\ context_log' = <<>>
    /\ final_answer' = JNull
    /\ node' = NextNode(node)
    /\ entered' = Append(entered, node')
    /\ UNCHANGED <<request, sharedVars, notes, client, prompts, response, epc,
                   llm_calls, wire, plan_sent, context_log_sent, workerVars, chunks,
                   planner_raw, calls, error>>

\* seq[-1]
Last(seq) == seq[Len(seq)]

\* Mutant: plan and context_log are put in the response whatever debug is.
SyncResponseAlwaysDebug(result, dbg) ==
    LET answer == result.final_answer
        content == IF ~Truthy(answer) /\ result.messages # <<>>
                   THEN JStr(Last(result.messages).content)
                   ELSE answer
    IN [role |-> "assistant", content |-> content,
        plan |-> result.plan, context_log |-> result.context_log]

\* The response built from ainvoke's result.
SyncResponse(result, dbg) ==
    LET answer == result.final_answer
        content == IF ~Truthy(answer) /\ result.messages # <<>>
                   THEN JStr(Last(result.messages).content)
                   ELSE answer
    IN IF dbg
       THEN [role |-> "assistant", content |-> content,
             plan |-> result.plan, context_log |-> result.context_log]
       ELSE [role |-> "assistant", content |-> content]

\* ainvoke returns the final state and the response is returned.
SyncReturns ==
    /\ pc = "invoke"
    /\ node = "__end__"
    /\ response' = SyncResponse([messages |-> messages, plan |-> plan,
                                 current_step |-> current_step,
                                 context_log |-> context_log,
                                 final_answer |-> final_answer], request.debug)
    /\ pc' = "closed"
    /\ UNCHANGED <<request, sharedVars, notes, client, prompts, epc, llm_calls,
                   graphs, wire, plan_sent, context_log_sent, node, graphVars,
                   workerVars, chunks, planner_raw, calls, entered, error>>

NextSync ==
    \/ SyncGetGraphFails
    \/ SyncGetGraphOk
    \/ PlannerFails
    \/ PlannerReturns
    \/ WorkerBegin
    \/ WorkerReasoning
    \/ WorkerTestRaises
    \/ ToolStart
    \/ ToolReturns
    \/ ToolRaises
    \/ WorkerReturns
    \/ ExplainerBegin
    \/ ExplainerChunk
    \/ ExplainerFails
    \/ ExplainerReturns
    \/ SyncReturns

SyncSpec == InitSync /\ [][NextSync]_vars

(***************************************************************************)
(* search_notes (backend/tools/notes.py): one call of the function, from   *)
(* its first statement to its return.  The arguments have passed the tool  *)
(* wrapper's validation; the index, the embedding service and the query    *)
(* are the environment.                                                    *)
(***************************************************************************)
\* The variables of the graph and of the endpoints.
runVars ==
    <<request, sharedVars, client, prompts, graphs, pc, wire, plan_sent, context_log_sent,
      node, messages, plan, current_step, context_log, final_answer, wpc,
      local_log, step_idx, epc, chunks, response, llm_calls, planner_raw, calls,
      entered, error>>

\* A result of the query: the document, its metadata and its distance.
Hits ==
    [doc : {"Buy oat milk", "Leg day on Monday"},
     meta : {JObj([source |-> JStr("diet.md")]), EmptyObj},
     distance : {0, 1}]
NotesErrors == {"OPENAI_API_KEY environment variable is required", "Connection error."}

\* A call with its arguments and the number of documents in the index.
NotesCalls ==
    {[pc |-> "call", top_k |-> k, count |-> c, hits |-> <<>>, failed |-> "",
      out |-> <<>>] : k \in 0..(MaxNotes + 1), c \in 0..MaxNotes}

NoNotesIndexed ==
    [content |-> "No notes have been indexed yet. Please run the ingestion script first.",
     source |-> "system", score |-> "0.0"]
NoRelevantNotes ==
    [content |-> "No relevant notes found for your query.",
     source |-> "system", score |-> "0.0"]
SearchError(msg) ==
    [content |-> "Error searching notes: " \o msg, source |-> "error",
     score |-> "0.0"]

\* One formatted result; the score is round(1.0 / (1.0 + distance), 4), as
\* Python prints it.
FormatHit(hit) ==
    [content |-> hit.doc,
     source |-> Get(hit.meta, "source", JStr("unknown")).s,
     score |-> IF hit.distance = 0 THEN "1.0" ELSE "0.5"]

\* Mutant: the list of formatted results is returned even when it is empty.
FormatResultsNoFallback(hits) == [i \in 1..Len(hits) |-> FormatHit(hits[i])]

\* The loop over results["documents"][0] and the "if not formatted_results".
FormatResults(hits) ==
    IF hits = <<>> THEN <<NoRelevantNotes>>
    ELSE [i \in 1..Len(hits) |-> FormatHit(hits[i])]

\* n_results=min(top_k, collection.count())
NResults == IF notes.top_k < notes.count THEN notes.top_k ELSE notes.count

\* "except Exception as e": the one error entry is returned.
Caught(stage, msg) ==
    notes' = [notes EXCEPT !.pc = "done", !.failed = stage,
                           !.out = <<SearchError(msg)>>]

\* search_notes is called.
NotesInit ==
    /\ request = [messages |-> <<>>, provider |-> "openai", debug |-> FALSE]
    /\ GraphIdle
    /\ pc = "tool"
    /\ notes \in NotesCalls

\* get_notes_collection() or collection.count() raises.
SearchCollectionFails ==
    /\ notes.pc = "call"
    /\ \E msg \in NotesErrors : Caught("collection", msg)
    /\ UNCHANGED runVars

\* The collection is there: an empty one ends the call.
SearchCounts ==
    /\ notes.pc = "call"
    /\ notes' = IF notes.count = 0
                THEN [notes EXCEPT !.pc = "done", !.out = <<NoNotesIndexed>>]
                ELSE [notes EXCEPT !.pc = "embed"]
    /\ UNCHANGED runVars

\* _get_query_embedding raises (no API key, the embeddings call fails).
SearchEmbedFails ==
    /\ notes.pc = "embed"
    /\ \E msg \in NotesErrors : Caught("embed", msg)
    /\ UNCHANGED runVars

SearchEmbeds ==
    /\ notes.pc = "embed"
    /\ notes' = [notes EXCEPT !.pc = "query"]
    /\ UNCHANGED runVars

\* collection.query raises; it always does for n_results below 1.
SearchQueryFails ==
    /\ notes.pc = "query"
    /\ \E msg \in NotesErrors : Caught("query", msg)
    /\ UNCHANGED runVars

\* collection.query returns at most n_results documents, nearest first.
SearchQueries ==
    /\ notes.pc = "query"
    /\ NResults >= 1
    /\ \E hits \in SeqsUpTo(Hits, NResults) :
          notes' = [notes EXCEPT !.pc = "format", !.hits = hits]
    /\ UNCHANGED runVars

\* The results are formatted and returned.
SearchReturns ==
    /\ notes.pc = "format"
    /\ notes' = [notes EXCEPT !.pc = "done", !.out = FormatResults(notes.hits)]
    /\ UNCHANGED runVars

NotesNext ==
    \/ SearchCollectionFails
    \/ SearchCounts
    \/ SearchEmbedFails
    \/ SearchEmbeds
    \/ SearchQueryFails
    \/ SearchQueries
    \/ SearchReturns

NotesSpec == NotesInit /\ [][NotesNext]_vars

(***************************************************************************)
(* The caller of the streaming endpoint goes away.  Nothing in             *)
(* stream_response or in the nodes looks at the connection: the run goes   *)
(* on until the server closes the generator.                               *)
(***************************************************************************)
\* The caller disconnects; the upstream calls made so far are noted.
Disconnect ==
    /\ pc = "stream"
    /\ client.connected
    /\ client' = [connected |-> FALSE, tools |-> Len(calls),
                  models |-> Len(llm_calls)]
    /\ UNCHANGED <<request, sharedVars, notes, prompts, graphs, pc, wire, plan_sent,
                   context_log_sent, node, graphVars, workerVars, epc, chunks,
                   response, llm_calls, planner_raw, calls, entered, error>>

\* StreamingResponse closes the generator of a caller that is gone.
Cancel ==
    /\ pc = "stream"
    /\ ~client.connected
    /\ pc' = "closed"
    /\ UNCHANGED <<request, sharedVars, notes, client, prompts, graphs, wire,
                   plan_sent, context_log_sent, node, graphVars, workerVars, epc,
                   chunks, response, llm_calls, planner_raw, calls, entered, error>>

DisconnectSpec == Init /\ [][Next \/ Disconnect \/ Cancel]_vars

(***************************************************************************)
(* worker_node on its own: the node is a function of the state it is       *)
(* given, and state.get("context_log", []) may hold entries already.       *)
(***************************************************************************)
\* The worker is about to run on a parsed plan and a given log.
WorkerInit ==
    /\ request \in {r \in Requests : r.debug /\ Len(r.messages) = 1}
    /\ notes = NotesIdle
    /\ client = Connected
    /\ cache = CacheEmpty
    /\ store = StoreIdle
    /\ manager = ManagerNone
    /\ graphs = {request.provider}
    /\ pc = "stream"
    /\ wire = <<StartEvent>>
    /\ plan_sent = FALSE
    /\ context_log_sent = FALSE
    /\ node = "worker"
    /\ entered = <<"planner", "worker">>
    /\ messages = ConvertMessages(request.messages)
    /\ \E raw \in PlannerTexts :
          /\ ParsePlan(raw).kind # "raise"
          /\ planner_raw = [k |-> "text", lines |-> raw]
          /\ plan = JList(ParsePlan(raw).plan)
    /\ current_step = 0
    /\ context_log \in
          { <<>>,
            << ReasoningEntry(FallbackPlan[1]) >>,
            << ReasoningEntry(FallbackPlan[1]),
               [step |-> JNum(2), action |-> "get_weather({})",
                result |-> "Error: boom"] >> }
    /\ final_answer = JNull
    /\ wpc = "idle"
    /\ local_log = <<>>
    /\ step_idx = 0
    /\ epc = "idle"
    /\ chunks = <<>>
    /\ response = JNull
    /\ llm_calls = <<"planner">>
    /\ prompts = <<RequestText(messages, "No message")>>
    /\ calls = <<>>
    /\ error = JNull

WorkerNext ==
    \/ WorkerBegin
    \/ WorkerReasoning
    \/ WorkerTestRaises
    \/ ToolStart
    \/ ToolReturns
    \/ ToolRaises
    \/ WorkerReturns

WorkerSpec == WorkerInit /\ [][WorkerNext]_vars

(***************************************************************************)
(* The planner model's call under astream_events.  stream_response relays  *)
(* every on_chat_model_stream event, whichever node's model it comes from  *)
(* (main.py:129-134); whether planner_model.invoke gives such events is up *)
(* to the model library, which graph.py only asks with streaming=False.    *)
(* Both outcomes are kept: the call may give chunk events or none.         *)
(***************************************************************************)
\* planner_model.invoke gives one more chunk: on_chat_model_stream.
PlannerChunk ==
    /\ pc = "stream"
    /\ node = "planner"
    /\ Len(SelectSeq(wire, LAMBDA e : e.type = "token")) < MaxChunks
    /\ \E c \in {"", "{\"plan\": ["} : Relay(ChatModelStream(c), <<>>)
    /\ UNCHANGED <<request, sharedVars, notes, client, prompts, response, epc,
                   llm_calls, graphs, pc, node, graphVars, workerVars, chunks,
                   planner_raw, calls, entered, error>>

StreamSpec == Init /\ [][Next \/ PlannerChunk]_vars

(***************************************************************************)
(* get_multi_agent_graph over the life of the process: the calls of all    *)
(* requests.  The function is synchronous, a call runs from its test to    *)
(* its return without another call in between.                             *)
(***************************************************************************)
\* The variables of a run, which the process-wide operations leave alone.
baseVars ==
    <<request, client, prompts, pc, wire, plan_sent, context_log_sent, node,
      messages, plan, current_step, context_log, final_answer, wpc, local_log,
      step_idx, epc, chunks, response, llm_calls, planner_raw, calls, entered,
      error>>

CacheProviders == {"openai", "ollama"}

\* The answer of a call: the graph returned, 0 when the call raised.
Answer(provider, graph) == [provider |-> provider, graph |-> graph]

\* provider in _multi_agent_graphs
Cached(provider) == \E e \in cache.graphs : e.provider = provider

\* _multi_agent_graphs[provider]
CachedGraph(provider) == (CHOOSE e \in cache.graphs : e.provider = provider).graph

\* _multi_agent_graphs[provider] = graph
Store(provider, graph) ==
    {e \in cache.graphs : e.provider # provider} \cup {Answer(provider, graph)}

\* Mutant: every call builds a graph and stores it, the test is left out.
GetMultiAgentGraphAlwaysBuilds(provider) ==
    LET graph == Len(cache.built) + 1
    IN cache' = [graphs |-> Store(provider, graph),
                 built |-> Append(cache.built, provider),
                 returned |-> Append(cache.returned, Answer(provider, graph))]

\* get_multi_agent_graph(provider) returns: the graph held, or a new graph,
\* which is stored first.
GetMultiAgentGraph(provider) ==
    IF Cached(provider)
    THEN cache' = [cache EXCEPT
                     !.returned = Append(@, Answer(provider, CachedGraph(provider)))]
    ELSE LET graph == Len(cache.built) + 1
         IN cache' = [graphs |-> Store(provider, graph),
                      built |-> Append(cache.built, provider),
                      returned |-> Append(cache.returned, Answer(provider, graph))]

\* The process is up and serves no request.
ProcessInit ==
    /\ request = [messages |-> <<>>, provider |-> "openai", debug |-> FALSE]
    /\ notes = NotesIdle
    /\ GraphIdle
    /\ pc = "idle"

\* A call that returns.
GetGraphReturns ==
    /\ Len(cache.returned) < MaxGraphCalls
    /\ \E provider \in CacheProviders : GetMultiAgentGraph(provider)
    /\ graphs' = {e.provider : e \in cache'.graphs}
    /\ UNCHANGED <<baseVars, notes, store, manager>>

\* A call for a provider not held, whose create_multi_agent_graph raises: the
\* assignment is not reached.
GetGraphRaises ==
    /\ Len(cache.returned) < MaxGraphCalls
    /\ \E provider \in CacheProviders :
          /\ ~Cached(provider)
          /\ cache' = [cache EXCEPT !.returned = Append(@, Answer(provider, 0))]
    /\ UNCHANGED <<baseVars, graphs, notes, store, manager>>

CacheNext == GetGraphReturns \/ GetGraphRaises

CacheSpec == ProcessInit /\ [][CacheNext]_vars

(***************************************************************************)
(* add_task called by the workers of concurrent runs.  worker_node is a    *)
(* plain function and the graph is run with astream_events / ainvoke, so   *)
(* the nodes of different runs are on different threads: the file          *)
(* operations of their add_task invocations interleave.  tasks.py takes no *)
(* lock.                                                                   *)
(***************************************************************************)
\* _load_tasks(): the list in the file; [] when the file is missing or does
\* not decode, as it is between the open for writing and the dump.
LoadTasks == store.file

\* new_task
NewTask(tasks, task) == [id |-> Len(tasks) + 1, task |-> task, completed |-> FALSE]

\* An invocation starts: tasks = _load_tasks(), new_task is appended to tasks.
AddTaskLoads ==
    /\ Len(store.invocations) < MaxInvocations
    /\ LET texts == <<"buy milk", "call mum", "pay rent", "fix bike", "book trip">>
           task == texts[Len(store.invocations) + 1]
           new_task == NewTask(LoadTasks, task)
       IN store' = [store EXCEPT
                      !.invocations =
                          Append(@, [pc |-> "save", tasks |-> Append(LoadTasks, new_task),
                                     new_task |-> new_task, status |-> ""])]
    /\ UNCHANGED <<baseVars, graphs, notes, cache, manager>>

\* _save_tasks: open(TASKS_FILE, "w") empties the file.
AddTaskOpens ==
    /\ \E i \in 1..Len(store.invocations) :
          /\ store.invocations[i].pc = "save"
          /\ store' = [store EXCEPT !.file = <<>>,
                                    !.invocations[i].pc = "dump"]
    /\ UNCHANGED <<baseVars, graphs, notes, cache, manager>>

\* _save_tasks: json.dump writes the invocation's list; add_task returns
\* status "success".
AddTaskDumps ==
    /\ \E i \in 1..Len(store.invocations) :
          /\ store.invocations[i].pc = "dump"
          /\ store' = [store EXCEPT !.file = store.invocations[i].tasks,
                                    !.invocations[i].pc = "done",
                                    !.invocations[i].status = "success"]
    /\ UNCHANGED <<baseVars, graphs, notes, cache, manager>>

TasksNext == AddTaskLoads \/ AddTaskOpens \/ AddTaskDumps

TasksSpec == ProcessInit /\ [][TasksNext]_vars

(***************************************************************************)
(* get_mcp_tools called by several coroutines of one event loop.  A        *)
(* coroutine runs until its next await; the awaits of the first caller's   *)
(* initialize are inside _connect_to_server.                               *)
(***************************************************************************)
\* get_mcp_servers(): the Brave Search server when BRAVE_API_KEY is set.
ServerConfigs == {<<>>, << [name |-> "brave-search", enabled |-> TRUE] >>}

\* tools_response.tools of a server that answers.
ToolLists ==
    {<<>>, <<"brave_web_search">>, <<"brave_web_search", "brave_local_search">>}

\* A caller whose call has returned tools, as the list stands at the return;
\* during is the await the initialization stood at when the call was made.
ReturnedTools(during, tools) == [pc |-> "done", during |-> during, tools |-> tools]

\* initialize is over: the caller that awaited it returns get_tools().
MarkReturned(callers, tools) ==
    [i \in 1..Len(callers) |->
        IF callers[i].pc = "initialize" THEN ReturnedTools("", tools) ELSE callers[i]]

\* The first call: _mcp_manager is None. The manager is created and
\* initialize runs up to its first await; with no server it is over at once.
GetMcpToolsFirst ==
    /\ ~manager.created
    /\ Len(manager.callers) < MaxCallers
    /\ \E servers \in ServerConfigs :
          IF servers = <<>>
          THEN manager' = [manager EXCEPT
                             !.created = TRUE,
                             !.initialized = TRUE,
                             !.callers = Append(@, ReturnedTools("", manager.tools))]
          ELSE manager' = [manager EXCEPT
                             !.created = TRUE,
                             !.servers = servers,
                             !.at = "stdio_client",
                             !.callers = Append(@, [pc |-> "initialize", during |-> "",
                                                   tools |-> <<>>])]
    /\ UNCHANGED <<baseVars, graphs, notes, cache, store>>

\* A later call: _mcp_manager is not None, get_tools() is returned at once.
GetMcpToolsLater ==
    /\ manager.created
    /\ Len(manager.callers) < MaxCallers
    /\ manager' = [manager EXCEPT
                     !.callers = Append(@, ReturnedTools(manager.at, manager.tools))]
    /\ UNCHANGED <<baseVars, graphs, notes, cache, store>>

\* An await of _connect_to_server is over and the next one is reached.
ConnectProceeds ==
    /\ manager.at \in {"stdio_client", "initialize"}
    /\ manager' = [manager EXCEPT
                     !.at = IF @ = "stdio_client" THEN "initialize" ELSE "list_tools"]
    /\ UNCHANGED <<baseVars, graphs, notes, cache, store>>

\* An await of _connect_to_server raises: initialize logs it, the loop is
\* over, _initialized is set and the first caller returns.
ConnectFails ==
    /\ manager.at # ""
    /\ manager' = [manager EXCEPT
                     !.at = "",
                     !.initialized = TRUE,
                     !.callers = MarkReturned(@, manager.tools)]
    /\ UNCHANGED <<baseVars, graphs, notes, cache, store>>

\* list_tools answers: the server's tools are wrapped, self._tools is
\* extended, _initialized is set and the first caller returns.
ConnectListsTools ==
    /\ manager.at = "list_tools"
    /\ \E tools \in ToolLists :
          manager' = [manager EXCEPT
                        !.at = "",
                        !.initialized = TRUE,
                        !.tools = @ \o tools,
                        !.callers = MarkReturned(@, manager.tools \o tools)]
    /\ UNCHANGED <<baseVars, graphs, notes, cache, store>>

McpNext ==
    \/ GetMcpToolsFirst
    \/ GetMcpToolsLater
    \/ ConnectProceeds
    \/ ConnectFails
    \/ ConnectListsTools

McpSpec == ProcessInit /\ [][McpNext]_vars

\* Every step of a run is the return or the raise of a call the run is waiting
\* for (a model call, a tool call under its HTTP timeout) or the next statement
\* of a coroutine the event loop keeps running: a run is never left waiting
\* forever while a step is possible.
FairSpec == Spec /\ WF_vars(Next)

(***************************************************************************)
(* Properties.                                                             *)
(***************************************************************************)
Range(seq) == {seq[i] : i \in 1..Len(seq)}
Count(seq, type) == Cardinality({i \in 1..Len(seq) : seq[i].type = type})

PlannerOutput == JsonLoads(StripFence(Strip(planner_raw.lines)))

\* The "plan" value is a list whose items are all objects.
IsListOfObjects(v) ==
    /\ v.k = "list"
    /\ \A i \in 1..Len(v.items) : v.items[i].k = "obj"

\* The response is not JSON, or not an object, or its "plan" is not a list of
\* objects.
Malformed ==
    \/ PlannerOutput = JSONDecodeError
    \/ PlannerOutput.k # "obj"
    \/ /\ "plan" \in DOMAIN PlannerOutput.f
       /\ ~IsListOfObjects(PlannerOutput.f.plan)

WorkerFinished == "explainer" \in Range(entered)

\* C1: whenever the planner's response is malformed or not of the expected
\* structure, the parsing does not raise and the plan is the single-step
\* fallback plan.
C1_MalformedGivesFallback ==
    (planner_raw # JNull /\ Malformed) =>
        /\ error = JNull \/ error.s \notin {ExcMessage("AttributeError"), ExcMessage("TypeError")}
        /\ plan = JList(FallbackPlan)

\* C2: the worker's log has one entry per plan step done with, the i-th entry
\* carrying the step number of the i-th step of the plan as given; once the
\* worker has returned, the context log has exactly as many entries as the plan.
C2_LogMatchesPlan ==
    /\ (node = "worker" /\ wpc # "idle") =>
          /\ Len(local_log) = step_idx
          /\ \A i \in 1..Len(local_log) : local_log[i].step = plan.items[i].step
    /\ WorkerFinished =>
          /\ Len(context_log) = Len(plan.items)
          /\ \A i \in 1..Len(context_log) : context_log[i].step = plan.items[i].step

\* The worker has returned on a two-step plan whose step numbers are out of
\* order and whose tool raised.
C2_Witness ==
    /\ WorkerFinished
    /\ Len(plan.items) = 2
    /\ plan.items[1].step = JNum(2)
    /\ plan.items[2].step = JNum(1)
    /\ Len(context_log) = 2
    /\ \E i \in 1..Len(calls) : calls[i].out.k = "raised"

\* C3: every tool invocation that raised has left the entry of its step, with
\* the action "<tool>(<serialized input>)" and a result that begins with
\* "Error: "; the run has not failed by it, and once the worker has returned
\* every later step has its entry too.
C3_ToolFailureRecorded ==
    \A i \in 1..Len(calls) :
        calls[i].out.k = "raised" =>
            /\ Len(local_log) >= calls[i].idx
            /\ local_log[calls[i].idx].step = plan.items[calls[i].idx].step
            /\ local_log[calls[i].idx].action =
                  calls[i].name \o "(" \o Dumps(calls[i].input) \o ")"
            /\ StartsWith(local_log[calls[i].idx].result, "Error: ")
            /\ step_idx >= calls[i].idx
            /\ ~(error # JNull /\ node = "worker" /\ wpc = "tool")
            /\ WorkerFinished =>
                  /\ Len(context_log) = Len(plan.items)
                  /\ context_log[calls[i].idx] = local_log[calls[i].idx]

\* The plan [failing tool, reasoning step] has been worked through.
C3_Witness ==
    /\ WorkerFinished
    /\ Len(calls) = 1
    /\ calls[1].out.k = "raised"
    /\ calls[1].idx = 1
    /\ Len(context_log) = 2
    /\ StartsWith(context_log[1].result, "Error: ")
    /\ context_log[2].result = "Reasoning/synthesis step completed"

\* C4: the first event of every stream is start, a closed stream holds exactly
\* one start event, and no stream holds more than one.
C4_StartFirst ==
    /\ wire # <<>> => wire[1].type = "start"
    /\ Count(wire, "start") <= 1
    /\ pc = "closed" => Count(wire, "start") = 1

TerminalTypes == {"end", "error"}

\* C5: a closed stream ends with its only terminal event (end or error); an
\* open stream holds no terminal event; nothing follows a terminal event.
C5_OneTerminalEvent ==
    /\ \A i \in 1..Len(wire) : wire[i].type \in TerminalTypes => i = Len(wire)
    /\ pc = "closed" => (wire # <<>> /\ Last(wire).type \in TerminalTypes)
    /\ pc # "closed" => \A i \in 1..Len(wire) : wire[i].type \notin TerminalTypes

\* A stream has ended with end after a tool invocation and a token.
C5_Witness ==
    /\ pc = "closed"
    /\ Last(wire).type = "end"
    /\ Count(wire, "token") > 0
    /\ Count(wire, "tool_end") > 0

StageOrder == <<"planner", "worker", "explainer", "__end__">>

\* C6: the nodes entered so far are planner, worker, explainer, END in this
\* order, each at most once, and the node that runs is the last one entered.
C6_LinearStages ==
    /\ Len(entered) <= Len(StageOrder)
    /\ \A i \in 1..Len(entered) : i <= Len(StageOrder) => entered[i] = StageOrder[i]
    /\ entered # <<>> => node = Last(entered)
    /\ entered = <<>> => node = "__start__"

\* A run has gone through all the stages.
C6_Witness ==
    /\ entered = StageOrder
    /\ pc = "closed"
    /\ final_answer # JNull

\* C7: the result of every entry of the log is at most MaxResultLen
\* characters long.
C7_ResultsBounded ==
    /\ \A i \in 1..Len(local_log) : Len(local_log[i].result) <= MaxResultLen
    /\ \A i \in 1..Len(context_log) : Len(context_log[i].result) <= MaxResultLen

\* C8: the entry of a tool that returned holds the first MaxResultLen
\* characters of the serialized result when that is longer, and the serialized
\* result unchanged otherwise.
C8_SuccessTruncated ==
    \A i \in 1..Len(calls) :
        calls[i].out.k = "returned" =>
            LET ser == ResultStr(calls[i].out.v)
                res == local_log[calls[i].idx].result
            IN /\ Len(local_log) >= calls[i].idx
               /\ Len(ser) > MaxResultLen =>
                     (res = SubSeq(ser, 1, MaxResultLen) /\ Len(res) = MaxResultLen)
               /\ Len(ser) <= MaxResultLen => res = ser

\* A tool has returned a result longer than MaxResultLen and the context log
\* holds its entry; another has returned one of exactly MaxResultLen.
C8_Witness ==
    /\ WorkerFinished
    /\ \E i \in 1..Len(calls) :
          /\ calls[i].out.k = "returned"
          /\ Len(ResultStr(calls[i].out.v)) > MaxResultLen
          /\ Len(context_log[calls[i].idx].result) = MaxResultLen
    /\ \E i \in 1..Len(calls) :
          /\ calls[i].out.k = "returned"
          /\ Len(ResultStr(calls[i].out.v)) = MaxResultLen

\* The tool of a plan step names nothing TOOL_MAP holds.
UnknownTool(step) == step.tool.k = "str" /\ step.tool.s # "" /\ step.tool.s \notin TOOL_MAP

\* C9: a step whose tool is not in TOOL_MAP gets the entry of a reasoning
\* step, no tool is invoked for it, and the run does not fail at it.
C9_UnknownToolIsReasoning ==
    plan # JNull =>
        \A i \in 1..Len(plan.items) :
            UnknownTool(plan.items[i]) =>
                /\ i <= Len(local_log) =>
                      local_log[i] = [step |-> plan.items[i].step,
                                      action |-> plan.items[i].description.s,
                                      result |-> "Reasoning/synthesis step completed"]
                /\ \A j \in 1..Len(calls) : calls[j].idx # i
                /\ ~(error # JNull /\ node = "worker" /\ step_idx = i - 1)

\* A run on a plan that names an unknown tool has ended with the end event.
C9_Witness ==
    /\ pc = "closed"
    /\ node = "__end__"
    /\ Last(wire).type = "end"
    /\ \E i \in 1..Len(context_log) :
          /\ UnknownTool(plan.items[i])
          /\ context_log[i].result = "Reasoning/synthesis step completed"

\* C10: when an exception has left the graph, the stream is closed, its last
\* event is the one error event and carries the exception's message, there is
\* no end event, the failed node has handed over to no other, and no final
\* answer exists; after a planner failure no plan exists, no tool was invoked
\* and no chunk was streamed.
C10_FailureEndsStream ==
    (error # JNull /\ Count(wire, "start") = 1) =>
        /\ pc = "closed"
        /\ Last(wire) = ErrorEvent(error.s)
        /\ Count(wire, "error") = 1
        /\ Count(wire, "end") = 0
        /\ node = Last(entered)
        /\ node # "__end__"
        /\ final_answer = JNull
        /\ error.s \in PlannerErrors =>
              /\ entered = <<"planner">>
              /\ plan = JNull
              /\ calls = <<>>
              /\ chunks = <<>>

\* The explainer has failed after a tool invocation and a token.
C10_Witness ==
    /\ error # JNull
    /\ error.s \in ExplainerErrors
    /\ Count(wire, "token") > 0
    /\ Count(wire, "tool_start") > 0

\* The types of the tool events on the wire, in order.
IsToolEvent(e) == e.type \in {"tool_start", "tool_end"}
ToolEventTypes ==
    LET events == SelectSeq(wire, IsToolEvent)
    IN [i \in 1..Len(events) |-> events[i].type]

\* What pairing asks of the invocations made so far: a tool_start for each, and
\* a tool_end right after it once the invocation is over.
RECURSIVE PairedEvents(_)
PairedEvents(cs) ==
    IF cs = <<>> THEN <<>>
    ELSE <<"tool_start">>
         \o (IF Head(cs).out.k = "pending" THEN <<>> ELSE <<"tool_end">>)
         \o PairedEvents(Tail(cs))

\* C11: the tool events of the stream are paired per invocation, in invocation
\* order: every invocation has its tool_start, followed by its tool_end before
\* the next invocation's tool_start, whether the tool returned or raised.
C11_ToolEventsPaired == ToolEventTypes = PairedEvents(calls)

\* C12: a stream holds at most one plan event; a plan event is there only in a
\* debug run, only once the planner has returned its parsed plan, and it
\* carries that plan.
C12_PlanSentOnce ==
    /\ Count(wire, "plan") <= 1
    /\ \A i \in 1..Len(wire) :
          wire[i].type = "plan" =>
              /\ request.debug
              /\ planner_raw # JNull
              /\ plan # JNull
              /\ "worker" \in Range(entered)
              /\ wire[i].plan = plan.items

\* A debug run has ended well: the plan event was sent when the planner
\* returned, and the graph's own on_chain_end, whose output carries the plan
\* too, has been relayed since.
C12_Witness ==
    /\ request.debug
    /\ pc = "closed"
    /\ error = JNull
    /\ Last(wire) = EndEvent
    /\ Count(wire, "plan") = 1

\* The number of calls made to one of the two models.
ModelCalls(model) == Cardinality({i \in 1..Len(llm_calls) : llm_calls[i] = model})

\* The plan steps whose tool is a name of the registry.
ResolvingSteps ==
    {i \in 1..Len(plan.items) :
        plan.items[i].tool.k = "str" /\ plan.items[i].tool.s \in TOOL_MAP}

\* C13: every run comes to its end, the stream closed after the graph reached
\* END or after a failure; and a run whose graph reached END has called the
\* planner model once, the explainer model once, and has invoked a tool once
\* for each plan step whose tool is in the registry, which is at most once per
\* plan step.
C13_RunTerminates ==
    /\ <>(pc = "closed")
    /\ [](node = "__end__" =>
             /\ ModelCalls("planner") = 1
             /\ ModelCalls("explainer") = 1
             /\ Len(calls) = Cardinality(ResolvingSteps)
             /\ Len(calls) <= Len(plan.items))

\* A run has ended after a two-step plan of which one step named a registered
\* tool: two model calls and one tool invocation.
C13_Witness ==
    /\ pc = "closed"
    /\ node = "__end__"
    /\ Len(plan.items) = 2
    /\ Cardinality(ResolvingSteps) = 1
    /\ Len(calls) = 1
    /\ llm_calls = <<"planner", "explainer">>

\* C14: whenever the planner's response is a JSON object that has no "plan"
\* key, the plan is the single-step fallback plan.
C14_MissingPlanKeyGivesFallback ==
    (/\ planner_raw # JNull
     /\ PlannerOutput # JSONDecodeError
     /\ PlannerOutput.k = "obj"
     /\ "plan" \notin DOMAIN PlannerOutput.f) =>
        plan = JList(FallbackPlan)

\* The planner's response decodes to an object whose "plan" is a list of
\* objects.
DecodedEntries == PlannerOutput.f.plan.items
WellFormedPlan ==
    /\ planner_raw # JNull
    /\ PlannerOutput # JSONDecodeError
    /\ PlannerOutput.k = "obj"
    /\ "plan" \in DOMAIN PlannerOutput.f
    /\ IsListOfObjects(PlannerOutput.f.plan)

\* C15: for a decoded plan of K entry objects the normalized plan has K steps
\* in the order of the entries; the i-th step takes step, description, tool and
\* tool_input from the i-th entry where the entry has them, and i, the empty
\* text, none and none where it has not.
C15_NormalizationFillsGaps ==
    planner_raw # JNull =>
        LET out == PlannerOutput
        IN (/\ out # JSONDecodeError
            /\ out.k = "obj"
            /\ "plan" \in DOMAIN out.f
            /\ IsListOfObjects(out.f.plan)) =>
               LET es == out.f.plan.items
               IN /\ plan # JNull
                  /\ Len(plan.items) = Len(es)
                  /\ \A i \in 1..Len(es) :
                        LET e == es[i].f
                            st == plan.items[i]
                        IN /\ st.step =
                                 IF "step" \in DOMAIN e THEN e.step ELSE JNum(i)
                           /\ st.description =
                                 IF "description" \in DOMAIN e
                                 THEN e.description ELSE JStr("")
                           /\ st.tool =
                                 IF "tool" \in DOMAIN e THEN e.tool ELSE JNull
                           /\ st.tool_input =
                                 IF "tool_input" \in DOMAIN e
                                 THEN e.tool_input ELSE JNull

\* The plan of the document [WeatherEntry, {}]: the first step keeps its own
\* number 2, the second is filled with its position 2, the empty text and no
\* tool.
C15_Witness ==
    /\ WellFormedPlan
    /\ DecodedEntries = <<WeatherEntry, EmptyObj>>
    /\ plan # JNull
    /\ plan.items[1].step = JNum(2)
    /\ plan.items[2] = [step |-> JNum(2), description |-> JStr(""),
                        tool |-> JNull, tool_input |-> JNull]

\* The layouts of a document inside code-fence markers: the closing fence on a
\* line of its own, on the line the document ends on, or missing.
FencedLayouts(d) == {Fenced(d), FencedSameLine(d), FencedOpen(d)}

\* C16: whenever the planner's response is a valid plan document inside
\* code-fence markers, wherever the closing fence stands, the plan is the
\* normalized plan of the document without the fence.
C16_FenceStripped ==
    \A d \in FencedDocs :
        (/\ planner_raw # JNull
         /\ planner_raw.lines \in FencedLayouts(d)
         /\ d.k = "obj"
         /\ ParsePlan(Bare(d)).kind = "plan") =>
            plan = JList(ParsePlan(Bare(d)).plan)

\* The contents of the token events on the wire, in order, and the non-empty
\* chunks the explainer model has streamed, in order.
IsTokenEvent(e) == e.type = "token"
TokenContents ==
    LET tokens == SelectSeq(wire, IsTokenEvent)
    IN [i \in 1..Len(tokens) |-> tokens[i].content]
IsNonEmpty(c) == c # ""
NonEmptyChunks == SelectSeq(chunks, IsNonEmpty)

C20_OneAtATime ==
    /\ \A i \in 1..Len(calls) :
          IF calls[i].out = Pending
          THEN /\ i = Len(calls)
               /\ node = "worker"
               /\ wpc = "tool"
               /\ step_idx = calls[i].idx - 1
               /\ Len(local_log) = calls[i].idx - 1
          ELSE /\ Len(local_log) >= calls[i].idx
               /\ step_idx >= calls[i].idx
    /\ \A i \in 1..(Len(calls) - 1) : calls[i].idx < calls[i + 1].idx
    /\ wpc = "tool" => (calls # <<>> /\ Last(calls).out = Pending)
    /\ wpc # "idle" => (node = "worker" /\ epc = "idle")
    /\ epc = "call" => (node = "explainer" /\ wpc = "idle")

\* The second tool of a plan is in progress, the first has returned or raised
\* and has its entry in the log.
C20_Witness ==
    /\ Len(calls) = 2
    /\ calls[1].out # Pending
    /\ calls[2].out = Pending
    /\ wpc = "tool"
    /\ Len(local_log) = 1

\* C19: a run of the synchronous endpoint that completes returns a response;
\* the response has the role "assistant" and the run's final answer as its
\* content, and it has the fields plan and context_log, with the run's plan and
\* context log, if and only if the request's debug flag is true.
C19_SyncResponse ==
    /\ (pc = "closed" /\ error = JNull) => response # JNull
    /\ response # JNull =>
          /\ node = "__end__"
          /\ error = JNull
          /\ final_answer # JNull
          /\ response.role = "assistant"
          /\ response.content = final_answer
          /\ ("plan" \in DOMAIN response) <=> request.debug
          /\ ("context_log" \in DOMAIN response) <=> request.debug
          /\ request.debug =>
                /\ response.plan = plan
                /\ response.context_log = context_log

\* A debug request has been answered after a plan of two steps.
C19_Witness ==
    /\ response # JNull
    /\ request.debug
    /\ Len(response.plan.items) = 2
    /\ Len(response.context_log) = 2
    /\ response.content # JStr("")

\* The argument mapping has an argument whose value is null.
HasNullArgument(input) ==
    /\ input.k = "obj"
    /\ \E key \in DOMAIN input.f : input.f[key] = JNull

\* C21: no tool is dispatched with a null-valued argument: the mapping handed
\* to tool.invoke, which is the mapping of the tool_start event too, has had
\* the arguments whose value is null removed.
C21_NoNullArgument ==
    \A i \in 1..Len(calls) : ~HasNullArgument(calls[i].input)

\* C22: a call of search_notes ends with a returned, non-empty list. It is the
\* single entry of source "error" when getting the collection, the embedding
\* or the query failed; the single entry of source "system" when the index is
\* empty; and otherwise at most top_k entries: the documents the index
\* returned, in its order, or the single "system" entry when it returned none.
C22_SearchNotesDegrades ==
    notes.pc = "done" =>
        /\ Len(notes.out) >= 1
        /\ notes.failed \in {"collection", "embed", "query"} =>
              (Len(notes.out) = 1 /\ notes.out[1].source = "error")
        /\ (notes.failed = "" /\ notes.count = 0) =>
              (Len(notes.out) = 1 /\ notes.out[1].source = "system")
        /\ (notes.failed = "" /\ notes.count > 0) =>
              /\ Len(notes.out) <= notes.top_k
              /\ IF notes.hits = <<>>
                 THEN Len(notes.out) = 1 /\ notes.out[1].source = "system"
                 ELSE /\ Len(notes.out) = Len(notes.hits)
                      /\ \A i \in 1..Len(notes.hits) :
                            notes.out[i].content = notes.hits[i].doc

\* Two documents came back from the index and were returned in its order.
C22_Witness ==
    /\ notes.pc = "done"
    /\ notes.failed = ""
    /\ Len(notes.out) = 2
    /\ notes.out[1].content # notes.out[2].content
    /\ notes.out[1].content = notes.hits[1].doc

\* C23: once the caller of a streaming run has disconnected, the run makes no
\* further upstream call: no tool is invoked and no model is called after the
\* disconnect.
C23_NoCallAfterDisconnect ==
    ~client.connected =>
        /\ Len(calls) = client.tools
        /\ Len(llm_calls) = client.models

\* The planner has just handed over to the worker.
PlannerCompletes == node = "planner" /\ node' = "worker"

\* C24: whenever the planner completes, on the parsed and on the fallback
\* path, plan is a sequence, current_step is 0 and context_log is empty; so
\* the worker never starts with an absent plan or with entries in the log.
C24_PlannerInitialisesState ==
    /\ [][PlannerCompletes =>
            /\ plan'.k = "list"
            /\ current_step' = 0
            /\ context_log' = <<>>]_vars
    /\ [](node = "worker" /\ wpc = "idle" =>
            /\ plan.k = "list"
            /\ current_step = 0
            /\ context_log = <<>>)

\* The planner's text was not JSON and the worker is about to start on the
\* fallback plan.
C24_Witness ==
    /\ node = "worker"
    /\ wpc = "idle"
    /\ planner_raw # JNull
    /\ planner_raw.lines = NotJson
    /\ plan = JList(FallbackPlan)

\* Log a is the beginning of log b, entry for entry.
LogPrefix(a, b) == Len(a) <= Len(b) /\ SubSeq(b, 1, Len(a)) = a

\* C25: the worker only appends to the log: while it runs, its log keeps the
\* given log and every entry written so far as an unchanged prefix, and the
\* log it returns is the given log followed by exactly one new entry for each
\* step of the plan, in the plan's order.
C25_WorkerOnlyAppends ==
    /\ [](node = "worker" /\ wpc # "idle" =>
            /\ LogPrefix(context_log, local_log)
            /\ Len(local_log) = Len(context_log) + step_idx)
    /\ [][node = "worker" /\ wpc # "idle" => LogPrefix(local_log, local_log')]_vars
    /\ [][node = "worker" /\ node' = "explainer" =>
            /\ LogPrefix(context_log, context_log')
            /\ Len(context_log') = Len(context_log) + Len(plan.items)
            /\ \A i \in 1..Len(plan.items) :
                  context_log'[Len(context_log) + i].step = plan.items[i].step]_vars

\* The worker was given a log with an entry and has returned it with the
\* entries of a two-step plan behind it.
C25_Witness ==
    /\ node = "explainer"
    /\ Len(plan.items) = 2
    /\ Len(context_log) = 3
    /\ context_log[1] = ReasoningEntry(FallbackPlan[1])
    /\ context_log[2] # context_log[3]

\* The planner is done: the worker or the explainer runs, or the graph is at
\* its end.
AfterPlanner == node \in {"worker", "explainer", "__end__"}

\* C26: after the planner has created the plan no later stage changes it: the
\* worker and the explainer leave plan and current_step alone, the worker
\* leaves messages and final_answer alone, the explainer leaves context_log
\* alone, and the plan at the end of the graph is the plan the planner parsed.
C26_PlanIsFrozen ==
    /\ [][AfterPlanner => plan' = plan /\ current_step' = current_step]_vars
    /\ [][node = "worker" => messages' = messages /\ final_answer' = final_answer]_vars
    /\ [][node = "explainer" => context_log' = context_log]_vars
    /\ [](node = "__end__" => plan = JList(ParsePlan(planner_raw.lines).plan))

\* A run with a two-step plan is at the end of the graph, the worker and the
\* explainer have both written their part of the state.
C26_Witness ==
    /\ node = "__end__"
    /\ Len(plan.items) = 2
    /\ Len(context_log) = 2
    /\ final_answer # JNull

\* C27: at the end of the graph final_answer is set and is the content of the
\* last message; the messages are the run's initial messages, unchanged and in
\* order, with exactly one assistant message behind them; and final_answer is
\* absent in every state before the explainer completes.
C27_FinalAnswerIsLastMessage ==
    /\ node = "__end__" =>
          LET initial == ConvertMessages(request.messages)
          IN /\ final_answer # JNull
             /\ Len(messages) = Len(initial) + 1
             /\ SubSeq(messages, 1, Len(initial)) = initial
             /\ messages[Len(messages)].type = "ai"
             /\ final_answer = JStr(messages[Len(messages)].content)
    /\ node \in {"__start__", "planner", "worker", "explainer"} =>
          final_answer = JNull

\* A run on the three-message conversation is at the end of the graph with an
\* answer that is not empty.
C27_Witness ==
    /\ node = "__end__"
    /\ Len(request.messages) = 3
    /\ Len(messages) = 3
    /\ final_answer # JNull
    /\ final_answer.s # ""

\* C28: the worker always hands over to the explainer: for every plan and
\* every outcome of its tool steps, a run that has entered the worker and is
\* over has entered the explainer as well.
C28_WorkerHandsOver ==
    (pc = "closed" /\ "worker" \in Range(entered)) => "explainer" \in Range(entered)

\* The content of the latest message of the user in msgs, "" if there is none.
LatestUser(msgs) ==
    LET users == SelectSeq(msgs, LAMBDA m : m.type = "human")
    IN IF users = <<>> THEN "" ELSE users[Len(users)].content

\* C29: the request text quoted by the planner's prompt and by the explainer's
\* prompt is the latest user message of the conversation, for every history,
\* also one whose last message is an assistant message.
C29_PromptQuotesLatestUser ==
    \A i \in 1..Len(prompts) :
        prompts[i] = LatestUser(ConvertMessages(request.messages))

\* The event types of the stream, and those of a stream without debug.
EventTypes ==
    {"start", "plan", "step", "token", "tool_start", "tool_end", "context_log",
     "end", "error"}
PlainEventTypes == EventTypes \ {"plan", "step", "context_log"}

\* C30: with the debug flag false the stream holds no plan and no context_log
\* event, every event is a start, token, tool_start, tool_end, end or error;
\* in every stream every event's type is one of the fixed event types.
C30_EventVocabulary ==
    \A i \in 1..Len(wire) :
        /\ wire[i].type \in EventTypes
        /\ ~request.debug => wire[i].type \in PlainEventTypes

\* A run without debug has ended after a tool step and a streamed answer.
C30_Witness ==
    /\ ~request.debug
    /\ pc = "closed"
    /\ Len(context_log) >= 1
    /\ \E i \in 1..Len(wire) : wire[i].type = "tool_end"
    /\ \E i \in 1..Len(wire) : wire[i].type = "token"
    /\ wire[Len(wire)].type = "end"

C32_ContextLogSentOnce ==
    /\ Count(wire, "context_log") <= 1
    /\ Count(wire, "context_log") > 0 => "explainer" \in Range(entered)

\* The number of graphs built for a provider.
BuiltFor(provider) ==
    Cardinality({i \in 1..Len(cache.built) : cache.built[i] = provider})

\* The last call raised.
LastCallRaised(c) == c.returned # <<>> /\ c.returned[Len(c.returned)].graph = 0

\* C33: after any sequence of get_multi_agent_graph calls the cache holds at
\* most one graph per provider and a graph was built at most once per
\* provider; a call for a provider whose graph is held returns that graph and
\* builds nothing; a call that raises leaves the cache as it was.
C33_OneGraphPerProvider ==
    /\ [](/\ \A e1, e2 \in cache.graphs : e1.provider = e2.provider => e1 = e2
          /\ \A provider \in CacheProviders : BuiltFor(provider) <= 1
          /\ \A i, j \in 1..Len(cache.returned) :
                (/\ i < j
                 /\ cache.returned[i].provider = cache.returned[j].provider
                 /\ cache.returned[i].graph # 0
                 /\ cache.returned[j].graph # 0) =>
                    cache.returned[i].graph = cache.returned[j].graph)
    /\ [][\A provider \in CacheProviders :
            (/\ Cached(provider)
             /\ Len(cache'.returned) = Len(cache.returned) + 1
             /\ cache'.returned[Len(cache'.returned)].provider = provider) =>
                /\ cache'.returned[Len(cache'.returned)].graph = CachedGraph(provider)
                /\ cache'.built = cache.built]_vars
    /\ [][(cache' # cache /\ LastCallRaised(cache')) =>
            cache'.graphs = cache.graphs /\ cache'.built = cache.built]_vars

\* A first call for a provider raised, a second built the graph, and a third
\* was given the same graph.
C33_Witness ==
    /\ Len(cache.returned) >= 3
    /\ cache.returned[1] = Answer("openai", 0)
    /\ cache.returned[2].provider = "openai"
    /\ cache.returned[2].graph # 0
    /\ cache.returned[3] = cache.returned[2]
    /\ cache.graphs = {cache.returned[2]}

\* C34: after any interleaving of add_task invocations, when none is in
\* progress, every invocation that returned status "success" has its task in
\* the stored list, and the k stored tasks have the ids 1..k.
C34_NoTaskLost ==
    (\A i \in 1..Len(store.invocations) : store.invocations[i].pc = "done") =>
        /\ \A i \in 1..Len(store.invocations) :
              store.invocations[i].status = "success" =>
                 \E k \in 1..Len(store.file) :
                    store.file[k].task = store.invocations[i].new_task.task
        /\ \A k \in 1..Len(store.file) : store.file[k].id = k

\* C35: every call of get_mcp_tools that returns, returns the complete tool
\* list of the manager, also a call made while the first initialization
\* awaits a server: once the initialization is over, the tools every caller
\* was given are the manager's tools. A server that failed gives no tools, and
\* no tool is registered twice.
C35_CallersGetAllTools ==
    /\ manager.initialized =>
          \A i \in 1..Len(manager.callers) :
              manager.callers[i].pc = "done" =>
                 manager.callers[i].tools = manager.tools
    /\ \A i, j \in 1..Len(manager.tools) :
          manager.tools[i] = manager.tools[j] => i = j

====
